---- MODULE Spec2Model ----
(***************************************************************************)
(* Model of the client side of the marketplace app: AuthProvider           *)
(* (context/AuthContext), its wallet operations, the token-gated role      *)
(* computation, ProtectedRoute, the Register and Messages pages and the    *)
(* data hooks that guard against duplicates.                               *)
(*                                                                         *)
(* The specifications share the variables:                                 *)
(*   Spec             the session reconciler (initializeAuth, auth events, *)
(*                    updateAuthState, background retry, signOut, unmount) *)
(*   FairSpec         Spec with the fairness the browser's timers give     *)
(*   WalletSpec       the wallet operations and the role computation       *)
(*   RegisterSpec     registerWithWallet against the backend tables        *)
(*   RouteSpec        ProtectedRoute under every auth state and location   *)
(*   RegisterPageSpec the Register page's steps                            *)
(*   MessagesSpec     the Messages page's realtime subscription            *)
(*   SessionSpec      the reconciler after initialization, with signIn     *)
(*   RefreshSpec      the same, with forceRefreshAuth                      *)
(*   ChatSpec         useChat.getOrCreateConversation                      *)
(*   SubmitSpec       createApplication, createReview,                     *)
(*                    createServiceRequest                                 *)
(***************************************************************************)
EXTENDS Integers, Sequences, FiniteSets, TLC

NULL == "null"

\* ------------------------------------------------------------------------
\* Values
\* ------------------------------------------------------------------------

\* Wallet addresses are character sequences; two of them share their first
\* eight characters.
WalletA1 == <<1, 1, 1, 1, 1, 1, 1, 1, 1>>
WalletA2 == <<1, 1, 1, 1, 1, 1, 1, 1, 2>>
WalletB  == <<2, 1, 1, 1, 1, 1, 1, 1, 1>>
Wallets  == {WalletA1, WalletA2, WalletB}
\* null / undefined wallet address
NoWallet == <<>>

UserTypes == {"client", "freelancer", "admin"}
StoredBalances == {0, 1000, 10000}

RECURSIVE SumSeq(_)
SumSeq(s) == IF s = <<>> THEN 0 ELSE Head(s) + SumSeq(Tail(s))

\* Replies of the JSON-RPC endpoint to getTokenAccountsByOwner: a transport
\* error, a reply without result.value, or the uiAmounts of the accounts.
RpcResponses ==
    {[kind |-> "error", value |-> <<>>], [kind |-> "none", value |-> <<>>]}
    \cup {[kind |-> "ok", value |-> v] :
            v \in {<<>>, <<999>>, <<1000>>, <<9999>>, <<5000, 5000>>,
                   <<49999>>, <<50000>>}}

fetchTokenBalance(resp) ==
    IF resp.kind = "ok" THEN SumSeq(resp.value) ELSE 0

Row(id, wallet, type, bal) ==
    [id |-> id, wallet_address |-> wallet, user_type |-> type, token_balance |-> bal]

\* null / undefined profile: every field reads as undefined
NoProfile == Row(NULL, NoWallet, NULL, 0)

\* Users of the hosted-auth backend that sessions are issued for
SessionUsers == {"u1", "u2"}

\* updateAuthState calls that may overlap, and retries that may be pending
MaxUpdates == 2
MaxRetries == 2

NoChannels == [u \in SessionUsers |-> 0]
NoRetries == [u \in SessionUsers |-> 0]
NoTimer == [uid |-> NULL, pending |-> FALSE]
\* An updateAuthState call awaiting its profile fetch: the session's user and
\* the caller that awaits it
UpdateKinds == [uid : SessionUsers,
                caller : {"init", "initialSession", "event", "force"}]
NoUpdates == [k \in UpdateKinds |-> 0]

\* Conversations of the Messages page and their realtime channels
ConvIds == {"c1", "c2", "c3"}

\* Users that message each other, in the order of their ids as strings
ChatUsers == {"u1", "u2", "u3"}
IdRank == [u \in ChatUsers |-> CASE u = "u1" -> 1 [] u = "u2" -> 2 [] OTHER -> 3]
\* Components that hold a useChat() instance, each with its own cache
ChatHooks == {"h1", "h2"}

\* The handlers that guard their table (job_applications, reviews,
\* service_requests) by a duplicate check, and the keys of the rows
SubmitHandlers == {"createApplication", "createReview", "createServiceRequest"}
SubmitKeys == [item : {"i1", "i2"}, who : {"u1"}]
\* Rows one key may collect
MaxRows == 2


VARIABLES
    \* AuthProvider state (useState)
    user, profile, isLoading, isProfileLoading, authError,
    localWalletAddress, isWalletConnecting, liveTokenBalance,
    \* AuthProvider refs (useRef)
    mountedRef, initCompleteRef, backgroundRetryRef, profileSubscriptionRef,
    \* backend: hosted-auth session, auth.users, profiles table, realtime channels
    session, authUsers, profiles, channels,
    \* wallet extension present in the page
    phantom,
    \* wallet for which liveTokenBalance was fetched
    liveFor,
    \* calls in flight
    wtask, rtask, initTask, initialEvent, fallbackTimer, updates, strayRetries,
    retryFetches, soTask,
    \* signIn and forceRefreshAuth in flight
    sitask, ftask,
    \* router: current location and what ProtectedRoute rendered
    location, screen,
    \* Register page: step of the registration wizard
    step,
    \* Messages page: mounted, useState/useParams/useRef values, the list
    \* loaded by useChat, whether the subscription effect left a cleanup, and
    \* the backend's messages channels
    messagesMounted, selectedConversation, conversationId, conversations,
    subscriptionRef, effectCleanup, msgChannels,
    \* useChat: conversations table, each instance's cache and call in flight
    conversationRows, conversationsCache, gtask,
    \* duplicate-checked tables (rows per key) and the create call in flight
    submissions, stask

vars == <<user, profile, isLoading, isProfileLoading, authError,
          localWalletAddress, isWalletConnecting, liveTokenBalance,
          mountedRef, initCompleteRef, backgroundRetryRef, profileSubscriptionRef,
          session, authUsers, profiles, channels, phantom, liveFor,
          wtask, rtask, initTask, initialEvent, fallbackTimer, updates,
          strayRetries, retryFetches, soTask, sitask, ftask,
          location, screen, step,
          messagesMounted, selectedConversation, conversationId, conversations,
          subscriptionRef, effectCleanup, msgChannels,
          conversationRows, conversationsCache, gtask, submissions, stask>>

routeVars == <<location, screen>>
messagesVars == <<messagesMounted, selectedConversation, conversationId,
                  conversations, subscriptionRef, effectCleanup, msgChannels>>
chatVars == <<conversationRows, conversationsCache, gtask>>
submitVars == <<submissions, stask>>
pageVars == <<step, messagesVars, chatVars, submitVars>>

reconcilerVars == <<isLoading, isProfileLoading, mountedRef, initCompleteRef,
                    backgroundRetryRef, profileSubscriptionRef, session, channels,
                    initTask, initialEvent, fallbackTimer, updates, strayRetries,
                    retryFetches, soTask, sitask, ftask>>
sessionVars == <<reconcilerVars, routeVars, pageVars>>
walletVars == <<localWalletAddress, isWalletConnecting, liveTokenBalance,
                phantom, liveFor, wtask>>
registerVars == <<authUsers, rtask>>

\* ------------------------------------------------------------------------
\* Token-gated role (computedValues)
\* ------------------------------------------------------------------------
CLIENT == 1000
FREELANCER == 10000
BOOSTED_FREELANCER == 50000

TokenBalanceOf(live, prof) ==
    IF live > 0 THEN live ELSE prof.token_balance

tokenBalance == TokenBalanceOf(liveTokenBalance, profile)

canBeClient == tokenBalance >= CLIENT
canBeFreelancer == tokenBalance >= FREELANCER
isBoostedFreelancer == tokenBalance >= BOOSTED_FREELANCER

storedRole == profile.user_type

EffectiveRoleNoDowngrade(stored, okClient, okFreelancer) ==
    IF stored = "client" /\ ~okClient THEN NULL ELSE stored

EffectiveRoleOf(stored, okClient, okFreelancer) ==
    IF stored = "freelancer" /\ ~okFreelancer
    THEN (IF okClient THEN "client" ELSE NULL)
    ELSE IF stored = "client" /\ ~okClient THEN NULL
    ELSE stored

effectiveRole == EffectiveRoleOf(storedRole, canBeClient, canBeFreelancer)

IsAuthenticatedOf(u, p) == u # NULL \/ p # NoProfile

isAuthenticated == IsAuthenticatedOf(user, profile)

isClientStored == storedRole = "client" \/ storedRole = "admin"

isClient == effectiveRole = "client" \/ storedRole = "admin"
isFreelancer == effectiveRole = "freelancer" \/ storedRole = "admin"
isAdmin == storedRole = "admin"

hasMinTokens(required) == tokenBalance >= required

canAccessRole(role) ==
    CASE role = "client" -> canBeClient
      [] role = "freelancer" -> canBeFreelancer
      [] role = "boosted" -> isBoostedFreelancer
      [] role = "admin" -> isAdmin
      [] OTHER -> FALSE

\* ------------------------------------------------------------------------
\* ProtectedRoute
\* ------------------------------------------------------------------------
ProtectedPaths == {"/post-job", "/post-service", "/messages",
                   "/messages/:conversationId", "/dashboard/client",
                   "/dashboard/freelancer", "/dashboard/dev", "/dashboard/admin"}

Spinner == [view |-> "spinner", to |-> NULL, from |-> NULL]
Children == [view |-> "children", to |-> NULL, from |-> NULL]
Redirect(loc) == [view |-> "navigate", to |-> "/login", from |-> loc]

ProtectedRouteAuthFirst(loading, authed, loc) ==
    IF ~authed THEN Redirect(loc)
    ELSE IF loading THEN Spinner
    ELSE Children

ProtectedRoute(loading, authed, loc) ==
    IF loading THEN Spinner
    ELSE IF ~authed THEN Redirect(loc)
    ELSE Children

\* ------------------------------------------------------------------------
\* Backend queries
\* ------------------------------------------------------------------------

\* profiles is the table, a set of rows with distinct ids.
RowsByWallet(w) == {r \in profiles : r.wallet_address = w}
RowsById(id) == {r \in profiles : r.id = id}

\* .single(): the row when exactly one matches, PGRST116 (null) otherwise.
Single(rows) ==
    IF Cardinality(rows) = 1 THEN CHOOSE r \in rows : TRUE ELSE NoProfile

\* update(...).eq('id', id): the table after the update.
UpdateWallet(id, w) ==
    {IF r.id = id THEN [r EXCEPT !.wallet_address = w] ELSE r : r \in profiles}

\* update(...).eq('id', user.id).select().single() in updateProfile: the
\* updated row, or NoProfile when the caller has no user or no row matches.
UpdatedRow(id, w) ==
    IF id = NULL THEN NoProfile ELSE Single({r \in UpdateWallet(id, w) : r.id = id})

\* ------------------------------------------------------------------------
\* Wallet operations: connectWallet, signInWithWallet, disconnectWallet and
\* the Phantom event listeners
\* ------------------------------------------------------------------------
NoResult == [kind |-> "none", address |-> NoWallet, isNewUser |-> FALSE,
             profile |-> NoProfile, error |-> NULL]
ErrorResult(e) == [NoResult EXCEPT !.kind = "error", !.error = e]
DataResult(a, found) ==
    [kind |-> "data", address |-> a, isNewUser |-> (found = NoProfile),
     profile |-> found, error |-> NULL]

IdleWallet == [op |-> "none", pc |-> "idle", user |-> NULL, address |-> NoWallet,
               found |-> NoProfile, result |-> NoResult]

\* signInWithWallet sets the profile it was handed; connectWallet sets none.
SoftLoginProfileSkip(op, found, prof) == prof

SoftLoginProfileAlways(op, found, prof) == IF op = "signIn" THEN found ELSE prof

SoftLoginProfile(op, found, prof) ==
    IF op = "signIn" /\ found # NoProfile THEN found ELSE prof

\* connectWallet links the wallet to the profile of a logged-in user.
NeedsProfileUpdate(u, found) == u # NULL /\ found = NoProfile

\* The return of connectWallet and, for a signInWithWallet call, the code
\* after its await.
WalletReturn(found, prof) ==
    /\ isWalletConnecting' = FALSE
    /\ profile' = SoftLoginProfile(wtask.op, found, prof)
    /\ wtask' = [wtask EXCEPT !.pc = "returned", !.found = found,
                              !.result = DataResult(wtask.address, found)]

\* Both entry points raise isWalletConnecting and reach for the extension;
\* signInWithWallet also clears authError.
WalletCall(op) ==
    /\ wtask.pc \in {"idle", "returned"}
    /\ isWalletConnecting' = TRUE
    /\ authError' = IF op = "signIn" THEN NULL ELSE authError
    /\ wtask' = [IdleWallet EXCEPT !.op = op, !.pc = "connect", !.user = user]
    /\ UNCHANGED <<user, profile, profiles, localWalletAddress, liveTokenBalance,
                   phantom, liveFor>>
    /\ UNCHANGED <<sessionVars, registerVars>>

connectWallet == WalletCall("connect")

signInWithWallet == WalletCall("signIn")

\* connectWallet returns { error }; signInWithWallet records it in authError.
WalletFail(e) ==
    /\ isWalletConnecting' = FALSE
    /\ authError' = IF wtask.op = "signIn" THEN e ELSE authError
    /\ wtask' = [wtask EXCEPT !.pc = "returned", !.result = ErrorResult(e)]
    /\ UNCHANGED <<user, profile, profiles, localWalletAddress, liveTokenBalance,
                   phantom, liveFor>>
    /\ UNCHANGED <<sessionVars, registerVars>>

PhantomMissing ==
    /\ wtask.pc = "connect"
    /\ ~phantom
    /\ WalletFail("Phantom wallet not installed")

PhantomConnectReject ==
    /\ wtask.pc = "connect"
    /\ phantom
    /\ WalletFail("Connection rejected by user")

PhantomConnectResolve ==
    /\ wtask.pc = "connect"
    /\ phantom
    /\ \E w \in Wallets :
         /\ localWalletAddress' = w
         /\ wtask' = [wtask EXCEPT !.pc = "balance", !.address = w]
    /\ UNCHANGED <<user, profile, authError, profiles, isWalletConnecting,
                   liveTokenBalance, phantom, liveFor>>
    /\ UNCHANGED <<sessionVars, registerVars>>

TokenBalanceResolve ==
    /\ wtask.pc = "balance"
    /\ \E resp \in RpcResponses :
         liveTokenBalance' = fetchTokenBalance(resp)
    /\ liveFor' = wtask.address
    /\ wtask' = [wtask EXCEPT !.pc = "lookup"]
    /\ UNCHANGED <<user, profile, authError, profiles, localWalletAddress,
                   isWalletConnecting, phantom>>
    /\ UNCHANGED <<sessionVars, registerVars>>

\* fetchProfileByWallet resolves with the row (or null), or throws (timeout,
\* network) and connectWallet goes on with no profile.
ProfileLookupResolve ==
    /\ wtask.pc = "lookup"
    /\ \E ok \in BOOLEAN :
         LET found == IF ok THEN Single(RowsByWallet(wtask.address)) ELSE NoProfile
         IN IF NeedsProfileUpdate(wtask.user, found)
            THEN /\ wtask' = [wtask EXCEPT !.pc = "update", !.found = found]
                 /\ UNCHANGED <<profile, isWalletConnecting>>
            ELSE WalletReturn(found, profile)
    /\ UNCHANGED <<user, authError, profiles, localWalletAddress, liveTokenBalance,
                   phantom, liveFor>>
    /\ UNCHANGED <<sessionVars, registerVars>>

\* await updateProfile({ wallet_address: address }) of connectWallet
ProfileUpdateResolve ==
    /\ wtask.pc = "update"
    /\ \E ok \in BOOLEAN :
         LET data == IF ok THEN UpdatedRow(wtask.user, wtask.address) ELSE NoProfile
         IN IF data # NoProfile
            THEN /\ profiles' = UpdateWallet(wtask.user, wtask.address)
                 /\ WalletReturn(wtask.found, data)
            ELSE /\ profiles' = profiles
                 /\ WalletReturn(wtask.found, profile)
    /\ UNCHANGED <<user, authError, localWalletAddress, liveTokenBalance,
                   phantom, liveFor>>
    /\ UNCHANGED <<sessionVars, registerVars>>

\* Phantom 'accountChanged' listener
handleAccountChanged ==
    /\ phantom
    /\ \E pk \in Wallets \cup {NoWallet} : localWalletAddress' = pk
    /\ UNCHANGED <<user, profile, authError, profiles, isWalletConnecting,
                   liveTokenBalance, phantom, liveFor, wtask>>
    /\ UNCHANGED <<sessionVars, registerVars>>

\* Phantom 'disconnect' listener
handleDisconnect ==
    /\ phantom
    /\ localWalletAddress' = NoWallet
    /\ UNCHANGED <<user, profile, authError, profiles, isWalletConnecting,
                   liveTokenBalance, phantom, liveFor, wtask>>
    /\ UNCHANGED <<sessionVars, registerVars>>

\* phantom.connect({ onlyIfTrusted: true }) of the mount effect resolves
EagerConnectResolve ==
    /\ phantom
    /\ wtask = IdleWallet
    /\ localWalletAddress = NoWallet
    /\ liveFor = NoWallet
    /\ \E w \in Wallets : localWalletAddress' = w
    /\ UNCHANGED <<user, profile, authError, profiles, isWalletConnecting,
                   liveTokenBalance, phantom, liveFor, wtask>>
    /\ UNCHANGED <<sessionVars, registerVars>>

disconnectWallet ==
    /\ \E ok \in BOOLEAN :
         IF ok \/ ~phantom
         THEN /\ localWalletAddress' = NoWallet
              /\ \E saved \in BOOLEAN :
                   LET data == IF saved THEN UpdatedRow(user, NoWallet) ELSE NoProfile
                   IN IF data # NoProfile
                      THEN /\ profiles' = UpdateWallet(user, NoWallet)
                           /\ profile' = data
                      ELSE UNCHANGED <<profiles, profile>>
         ELSE UNCHANGED <<localWalletAddress, profiles, profile>>
    /\ UNCHANGED <<user, authError, isWalletConnecting, liveTokenBalance, phantom,
                   liveFor, wtask>>
    /\ UNCHANGED <<sessionVars, registerVars>>

\* ------------------------------------------------------------------------
\* Idle values of the calls the wallet specification leaves alone
\* ------------------------------------------------------------------------
IdleRegister == [pc |-> "idle", wallet |-> NoWallet, type |-> NULL, id |-> NULL,
                 result |-> "none"]

\* The pages outside the one a specification is about, at rest
\* No page or data hook has done anything yet.
IdleHooks ==
    /\ messagesMounted = FALSE
    /\ selectedConversation = NULL
    /\ conversationId = NULL
    /\ conversations = {}
    /\ subscriptionRef = NULL
    /\ effectCleanup = FALSE
    /\ msgChannels = [c \in ConvIds |-> 0]
    /\ conversationRows = {}
    /\ conversationsCache = [h \in ChatHooks |-> {}]
    /\ gtask = [h \in ChatHooks |-> [pc |-> "idle", a |-> NULL, b |-> NULL, result |-> NULL]]
    /\ submissions = [t \in SubmitHandlers |-> [k \in SubmitKeys |-> 0]]
    /\ stask = [t \in SubmitHandlers |->
                  [pc |-> "idle", key |-> [item |-> NULL, who |-> NULL], result |-> NULL]]

IdlePages == step = "connect" /\ IdleHooks

\* The session reconciler after initialization, with nothing in flight.
ReconcilerSettled ==
    /\ sitask = [pc |-> "idle", uid |-> NULL]
    /\ ftask = "idle"
    /\ isLoading = FALSE
    /\ isProfileLoading = FALSE
    /\ mountedRef = TRUE
    /\ initCompleteRef = TRUE
    /\ backgroundRetryRef = NoTimer
    /\ profileSubscriptionRef = NULL
    /\ channels = NoChannels
    /\ initTask = "done"
    /\ initialEvent = "sent"
    /\ fallbackTimer = "fired"
    /\ updates = NoUpdates
    /\ strayRetries = NoRetries
    /\ retryFetches = NoRetries
    /\ soTask = "idle"

SessionSettled ==
    /\ ReconcilerSettled
    /\ location = "/messages"
    /\ screen = Children
    /\ IdlePages

WalletInit ==
    /\ \E t \in UserTypes, b \in StoredBalances :
         profiles = {Row("u1", WalletA1, t, b), Row("u2", NoWallet, "client", 0)}
    /\ \E u \in {NULL, "u2"} :
         /\ user = u
         /\ session = u
         /\ profile = IF u = NULL THEN NoProfile ELSE Row("u2", NoWallet, "client", 0)
    /\ phantom \in BOOLEAN
    /\ authError = NULL
    /\ localWalletAddress = NoWallet
    /\ isWalletConnecting = FALSE
    /\ liveTokenBalance = 0
    /\ liveFor = NoWallet
    /\ authUsers = {}
    /\ wtask = IdleWallet
    /\ rtask = IdleRegister
    /\ SessionSettled

WalletNext ==
    \/ connectWallet
    \/ signInWithWallet
    \/ PhantomMissing
    \/ PhantomConnectResolve
    \/ PhantomConnectReject
    \/ TokenBalanceResolve
    \/ ProfileLookupResolve
    \/ ProfileUpdateResolve
    \/ handleAccountChanged
    \/ handleDisconnect
    \/ EagerConnectResolve
    \/ disconnectWallet

WalletSpec == WalletInit /\ [][WalletNext]_vars

\* ------------------------------------------------------------------------
\* Properties of the wallet operations and the role computation
\* ------------------------------------------------------------------------
WalletQuiet == wtask.pc \in {"idle", "returned"}

\* C1: for a non-admin profile the exposed role follows the table
\* (freelancer, >= 10000) -> freelancer; (freelancer, 1000..9999) -> client;
\* (freelancer or client, < 1000) -> null; (client, >= 1000) -> client;
\* and isClient / isFreelancer hold exactly for effectiveRole client /
\* freelancer.
C1_RoleTable ==
    storedRole # "admin" =>
      /\ (storedRole = "freelancer" /\ tokenBalance >= 10000
            => effectiveRole = "freelancer")
      /\ (storedRole = "freelancer" /\ tokenBalance >= 1000 /\ tokenBalance < 10000
            => effectiveRole = "client")
      /\ (storedRole \in {"freelancer", "client"} /\ tokenBalance < 1000
            => effectiveRole = NULL)
      /\ (storedRole = "client" /\ tokenBalance >= 1000 => effectiveRole = "client")
      /\ (isClient <=> effectiveRole = "client")
      /\ (isFreelancer <=> effectiveRole = "freelancer")

C1_Witness ==
    /\ wtask.pc = "returned"
    /\ storedRole = "freelancer"
    /\ tokenBalance = 9999
    /\ effectiveRole = "client"
    /\ isClient

\* C2 as claimed: isClient, isFreelancer and isBoostedFreelancer imply the
\* balance thresholds 1000, 10000 and 50000 whatever user_type is stored.
C2_Original ==
    /\ (isClient => tokenBalance >= 1000)
    /\ (isFreelancer => tokenBalance >= 10000)
    /\ (isBoostedFreelancer => tokenBalance >= 50000)

\* C2 amended: for every profile whose stored user_type is not 'admin',
\* isClient implies tokenBalance >= 1000 and isFreelancer implies
\* tokenBalance >= 10000; isBoostedFreelancer implies tokenBalance >= 50000
\* for every profile.
C2_TokenGated ==
    /\ (storedRole # "admin" /\ isClient => tokenBalance >= 1000)
    /\ (storedRole # "admin" /\ isFreelancer => tokenBalance >= 10000)
    /\ (isBoostedFreelancer => tokenBalance >= 50000)

C2_Witness ==
    /\ wtask.pc = "returned"
    /\ storedRole = "freelancer"
    /\ isFreelancer
    /\ liveTokenBalance = 10000

\* The step on which a signInWithWallet call made without a hosted-auth
\* session returns.
SignInReturns ==
    /\ wtask.op = "signIn"
    /\ wtask.user = NULL
    /\ wtask.pc # "returned"
    /\ wtask'.pc = "returned"

C4_Original ==
    /\ (WalletQuiet /\ liveFor # NoWallet /\ liveFor = localWalletAddress
          => tokenBalance = liveTokenBalance)
    /\ (liveFor = NoWallet => tokenBalance = profile.token_balance)

\* C5 as claimed: between wallet calls, liveTokenBalance is 0 when no wallet
\* is connected, and a balance in use was fetched for the connected wallet.
C5_Original ==
    WalletQuiet =>
      /\ (localWalletAddress = NoWallet => liveTokenBalance = 0)
      /\ (localWalletAddress # NoWallet /\ liveTokenBalance > 0
            => liveFor = localWalletAddress)

\* C9: a signInWithWallet call made without a session returns
\* {data: {address, isNewUser: true, profile: null}, error: null} for a wallet
\* with no profile row and changes neither user nor profile; when the
\* connection fails it returns {data: null, error}, sets authError to the
\* error and changes neither user nor profile; isWalletConnecting is false on
\* every return.
C9_SignInFrame ==
    [][(wtask' # wtask /\ wtask'.op = "signIn" /\ wtask'.user = NULL) =>
         /\ (wtask'.pc = "returned" => isWalletConnecting' = FALSE)
         /\ (wtask'.pc # "returned" => user' = user /\ profile' = profile)
         /\ (SignInReturns /\ wtask.pc = "lookup" /\ RowsByWallet(wtask.address) = {}
               => /\ wtask'.result = [kind |-> "data", address |-> wtask.address,
                                      isNewUser |-> TRUE, profile |-> NoProfile,
                                      error |-> NULL]
                  /\ user' = user
                  /\ profile' = profile)
         /\ (SignInReturns /\ wtask.pc = "connect"
               => /\ wtask'.result.kind = "error"
                  /\ wtask'.result.error # NULL
                  /\ authError' = wtask'.result.error
                  /\ user' = user
                  /\ profile' = profile)]_vars

C9_Witness ==
    /\ wtask.pc = "returned"
    /\ wtask.op = "signIn"
    /\ wtask.user = NULL
    /\ wtask.result.kind = "data"
    /\ wtask.result.isNewUser
    /\ RowsByWallet(wtask.address) = {}
    /\ profile # NoProfile
    /\ ~isWalletConnecting

\* ------------------------------------------------------------------------
\* registerWithWallet
\* ------------------------------------------------------------------------
EmailPrefixLen == 8

\* `${walletAddress.slice(0, 8)}@wallet.pumpwork.local`: the local part
tempEmail(walletAddress) == SubSeq(walletAddress, 1, EmailPrefixLen)

NewUserIds == {"u3", "u4", "u5"}
FreshId == CHOOSE id \in NewUserIds : \A a \in authUsers : a.id # id

AlreadyRegistered == "This wallet is already registered"
AppearsRegistered == "This wallet appears to already be registered"

\* registerWithWallet(walletAddress, nickname, userType) up to its first await
RegisterCall(walletAddress, userType) ==
    /\ rtask.pc \in {"idle", "returned"}
    /\ rtask' = [IdleRegister EXCEPT !.pc = "lookup", !.wallet = walletAddress,
                                     !.type = userType]
    /\ authError' = NULL
    /\ UNCHANGED <<user, profile, profiles, authUsers>>
    /\ UNCHANGED <<sessionVars, walletVars>>

registerWithWallet ==
    \E w \in Wallets, t \in {"client", "freelancer"} : RegisterCall(w, t)

\* const existingProfile = await fetchProfileByWallet(walletAddress)
RegisterLookupResolve ==
    /\ rtask.pc = "lookup"
    /\ \E ok \in BOOLEAN :
         IF ~ok
         THEN /\ authError' = "Profile fetch timeout"
              /\ rtask' = [rtask EXCEPT !.pc = "returned",
                                        !.result = "Profile fetch timeout"]
         ELSE /\ authError' = authError
              /\ rtask' = IF Single(RowsByWallet(rtask.wallet)) # NoProfile
                          THEN [rtask EXCEPT !.pc = "returned",
                                             !.result = AlreadyRegistered]
                          ELSE [rtask EXCEPT !.pc = "signUp"]
    /\ UNCHANGED <<user, profile, profiles, authUsers>>
    /\ UNCHANGED <<sessionVars, walletVars>>

\* supabase.auth.signUp with the generated email: refused when the email is
\* taken, else it fails or creates the auth user, and the backend trigger
\* inserts the user's profiles row.
RegisterSignUpResolve ==
    /\ rtask.pc = "signUp"
    /\ IF \E a \in authUsers : a.email = tempEmail(rtask.wallet)
       THEN /\ rtask' = [rtask EXCEPT !.pc = "returned", !.result = AppearsRegistered]
            /\ UNCHANGED <<authError, authUsers, profiles>>
       ELSE \E ok \in BOOLEAN :
              IF ok
              THEN /\ authUsers' = authUsers \cup
                         {[id |-> FreshId, email |-> tempEmail(rtask.wallet),
                           wallet |-> rtask.wallet]}
                   /\ profiles' = profiles \cup {Row(FreshId, NoWallet, rtask.type, 0)}
                   /\ rtask' = [rtask EXCEPT !.pc = "update", !.id = FreshId]
                   /\ authError' = authError
              ELSE /\ authError' = "signUp failed"
                   /\ rtask' = [rtask EXCEPT !.pc = "returned", !.result = "signUp failed"]
                   /\ UNCHANGED <<authUsers, profiles>>
    /\ UNCHANGED <<user, profile>>
    /\ UNCHANGED <<sessionVars, walletVars>>

\* The profiles update (its error is only logged), then fetchProfile and
\* setProfile.
RegisterUpdateResolve ==
    /\ rtask.pc = "update"
    /\ \E updated \in BOOLEAN, fetched \in BOOLEAN :
         /\ profiles' = IF updated THEN UpdateWallet(rtask.id, rtask.wallet)
                        ELSE profiles
         /\ IF fetched
            THEN /\ profile' = Single({r \in profiles' : r.id = rtask.id})
                 /\ authError' = authError
                 /\ rtask' = [rtask EXCEPT !.pc = "returned", !.result = "ok"]
            ELSE /\ profile' = profile
                 /\ authError' = "Profile fetch timeout"
                 /\ rtask' = [rtask EXCEPT !.pc = "returned",
                                           !.result = "Profile fetch timeout"]
    /\ UNCHANGED <<user, authUsers>>
    /\ UNCHANGED <<sessionVars, walletVars>>

RegisterInit ==
    /\ profiles \in {{}, {Row("u1", WalletB, "client", 1000)}}
    /\ user = NULL
    /\ session = NULL
    /\ profile = NoProfile
    /\ phantom = TRUE
    /\ authError = NULL
    /\ localWalletAddress = NoWallet
    /\ isWalletConnecting = FALSE
    /\ liveTokenBalance = 0
    /\ liveFor = NoWallet
    /\ authUsers = {}
    /\ wtask = IdleWallet
    /\ rtask = IdleRegister
    /\ SessionSettled

RegisterNext ==
    \/ registerWithWallet
    \/ RegisterLookupResolve
    \/ RegisterSignUpResolve
    \/ RegisterUpdateResolve

RegisterSpec == RegisterInit /\ [][RegisterNext]_vars

\* The wallet address itself has been registered: a profiles row carries it
\* or an auth user was signed up for it.
RegisteredBefore(w) ==
    \/ \E r \in profiles : r.wallet_address = w
    \/ \E a \in authUsers : a.wallet = w

RegisterReturns == rtask.pc # "returned" /\ rtask'.pc = "returned"

\* C10 as claimed: registerWithWallet(W) is rejected as already registered
\* only if W itself was registered before (registrations of other wallets
\* never cause the rejection), and when the lookup finds a profile for W it
\* returns the 'already registered' error without sign-up and without
\* changing profile.
C10_Original ==
    [][RegisterReturns =>
         /\ (rtask'.result \in {AlreadyRegistered, AppearsRegistered}
               => RegisteredBefore(rtask.wallet))
         /\ (rtask.pc = "lookup" /\ rtask'.result \notin {"Profile fetch timeout"}
               /\ RowsByWallet(rtask.wallet) # {}
               => /\ rtask'.result = AlreadyRegistered
                  /\ authUsers' = authUsers
                  /\ profile' = profile)]_vars

\* ------------------------------------------------------------------------
\* Register page (pages/Login.jsx, Register): connect -> tokens -> nickname
\* ------------------------------------------------------------------------
walletAddress ==
    IF localWalletAddress # NoWallet THEN localWalletAddress
    ELSE profile.wallet_address

isWalletConnected == walletAddress # NoWallet

determinedRoleNoMinimum ==
    IF tokenBalance >= FREELANCER THEN "freelancer" ELSE "client"

determinedRole ==
    IF tokenBalance >= FREELANCER THEN "freelancer"
    ELSE IF tokenBalance >= CLIENT THEN "client"
    ELSE NULL

OnRegisterPage == location = "/register"

\* useEffect: leave for the dashboard once authenticated with a named
\* profile. registerWithWallet writes nickname and wallet_address in one
\* update, so a row carries a nickname when it carries a wallet address.
RegisterRedirectEffect ==
    /\ OnRegisterPage
    /\ isAuthenticated /\ profile # NoProfile /\ profile.wallet_address # NoWallet
    /\ location' = CASE profile.user_type = "client" -> "/dashboard/client"
                      [] profile.user_type = "admin" -> "/dashboard/admin"
                      [] OTHER -> "/dashboard/freelancer"
    /\ UNCHANGED <<user, profile, authError, profiles, authUsers, rtask, screen,
                   reconcilerVars, walletVars, pageVars>>

\* useEffect: move to the token check when the wallet connects
WalletStepEffect ==
    /\ OnRegisterPage
    /\ isWalletConnected /\ step = "connect"
    /\ step' = "tokens"
    /\ UNCHANGED <<user, profile, authError, profiles, authUsers, rtask,
                   reconcilerVars, walletVars, routeVars, messagesVars, chatVars, submitVars>>

\* handleWalletConnect up to `await connectWallet()`
handleWalletConnect ==
    /\ OnRegisterPage
    /\ step = "connect"
    /\ ~isWalletConnecting
    /\ connectWallet

\* handleWalletConnect after the await: a wallet that has a profile is sent
\* to /login.
handleWalletConnectReturn ==
    /\ OnRegisterPage
    /\ wtask.op = "connect" /\ wtask.pc = "returned"
    /\ wtask' = [wtask EXCEPT !.pc = "idle"]
    /\ location' = IF wtask.result.kind = "data" /\ wtask.result.profile # NoProfile
                   THEN "/login" ELSE location
    /\ UNCHANGED <<user, profile, authError, profiles, authUsers, rtask, screen,
                   localWalletAddress, isWalletConnecting, liveTokenBalance, phantom,
                   liveFor, reconcilerVars, pageVars>>

\* handleContinueToNickname: without a role it only shows an error.
handleContinueToNickname ==
    /\ OnRegisterPage
    /\ step = "tokens"
    /\ determinedRole # NULL
    /\ step' = "nickname"
    /\ UNCHANGED <<user, profile, authError, profiles, authUsers, rtask,
                   reconcilerVars, walletVars, routeVars, messagesVars, chatVars, submitVars>>

\* The Back button of the nickname step
BackToTokens ==
    /\ OnRegisterPage
    /\ step = "nickname"
    /\ rtask.pc \in {"idle", "returned"}
    /\ step' = "tokens"
    /\ UNCHANGED <<user, profile, authError, profiles, authUsers, rtask,
                   reconcilerVars, walletVars, routeVars, messagesVars, chatVars, submitVars>>

\* handleCompleteRegistration with an acceptable nickname, up to
\* `await registerWithWallet(...)`; without a role or with a bad nickname it
\* only shows an error.
handleCompleteRegistration ==
    /\ OnRegisterPage
    /\ step = "nickname"
    /\ rtask.pc \in {"idle", "returned"}
    /\ determinedRole # NULL
    /\ IF walletAddress = NoWallet
       THEN /\ step' = "connect"
            /\ UNCHANGED <<user, profile, authError, profiles, authUsers, rtask,
                           reconcilerVars, walletVars, routeVars, messagesVars, chatVars, submitVars>>
       ELSE RegisterCall(walletAddress, determinedRole)

\* handleCompleteRegistration after the await
handleCompleteRegistrationReturn ==
    /\ OnRegisterPage
    /\ rtask.pc = "returned"
    /\ rtask' = [rtask EXCEPT !.pc = "idle"]
    /\ location' = IF rtask.result = "ok"
                   THEN (IF rtask.type = "client" THEN "/dashboard/client"
                         ELSE "/dashboard/freelancer")
                   ELSE location
    /\ UNCHANGED <<user, profile, authError, profiles, authUsers, screen,
                   reconcilerVars, walletVars, pageVars>>

RegisterPageInit ==
    /\ profiles = {Row("u1", WalletB, "client", 1000)}
    /\ user = NULL
    /\ session = NULL
    /\ profile = NoProfile
    /\ phantom \in BOOLEAN
    /\ authError = NULL
    /\ localWalletAddress = NoWallet
    /\ isWalletConnecting = FALSE
    /\ liveTokenBalance = 0
    /\ liveFor = NoWallet
    /\ authUsers = {}
    /\ wtask = IdleWallet
    /\ rtask = IdleRegister
    /\ ReconcilerSettled
    /\ location = "/register"
    /\ screen = Children
    /\ step = "connect"
    /\ IdleHooks

RegisterPageNext ==
    \/ RegisterRedirectEffect
    \/ WalletStepEffect
    \/ handleWalletConnect
    \/ PhantomMissing
    \/ PhantomConnectReject
    \/ PhantomConnectResolve
    \/ TokenBalanceResolve
    \/ ProfileLookupResolve
    \/ handleWalletConnectReturn
    \/ handleAccountChanged
    \/ handleDisconnect
    \/ handleContinueToNickname
    \/ BackToTokens
    \/ handleCompleteRegistration
    \/ RegisterLookupResolve
    \/ RegisterSignUpResolve
    \/ RegisterUpdateResolve
    \/ handleCompleteRegistrationReturn

RegisterPageSpec == RegisterPageInit /\ [][RegisterPageNext]_vars

RegisterCalled == rtask.pc # "lookup" /\ rtask'.pc = "lookup"

\* C11: in the Register flow registerWithWallet is called only when
\* tokenBalance >= 1000 and a wallet is connected, the role passed is
\* 'freelancer' exactly when tokenBalance >= 10000 and 'client' otherwise,
\* and the step advances from 'tokens' to 'nickname' only when
\* tokenBalance >= 1000.
C11_RoleByBalance ==
    [][/\ (RegisterCalled
             => /\ tokenBalance >= 1000
                /\ isWalletConnected
                /\ rtask'.wallet = walletAddress
                /\ (rtask'.type = "freelancer" <=> tokenBalance >= 10000)
                /\ (rtask'.type = "client" <=> tokenBalance < 10000))
       /\ (step = "tokens" /\ step' = "nickname" => tokenBalance >= 1000)]_vars

C11_Witness ==
    /\ OnRegisterPage
    /\ step = "nickname"
    /\ rtask.pc = "lookup"
    /\ rtask.type = "client"
    /\ rtask.wallet = walletAddress
    /\ tokenBalance = 9999

\* ------------------------------------------------------------------------
\* Session reconciler: updateAuthState, initializeAuth, the auth event
\* listener, the fallback timer, the background retry, signOut, unmount
\* ------------------------------------------------------------------------
otherVars == <<localWalletAddress, isWalletConnecting, liveTokenBalance, phantom,
               liveFor, wtask, authUsers, rtask, profiles, routeVars, pageVars,
               sitask, ftask>>

\* fetchProfile: the row with that id, or null
fetchProfile(userId) == Single(RowsById(userId))

PendingRetries ==
    (IF backgroundRetryRef.pending THEN 1 ELSE 0)
    + strayRetries["u1"] + strayRetries["u2"]

RetriesInFlight == PendingRetries + retryFetches["u1"] + retryFetches["u2"]

\* supabase.removeChannel(profileSubscriptionRef.current); removing a channel
\* that was removed before (the ref the unmount cleanup leaves behind) does
\* nothing.
Removed(ch, ref) ==
    IF ref = NULL \/ ch[ref] = 0 THEN ch ELSE [ch EXCEPT ![ref] = ch[ref] - 1]

SubscribedKeepOld(ch, ref, userId) == [ch EXCEPT ![userId] = ch[userId] + 1]

\* subscribeToProfile: drop the registered channel, subscribe a new one
Subscribed(ch, ref, userId) ==
    LET rest == Removed(ch, ref) IN [rest EXCEPT ![userId] = rest[userId] + 1]

RECURSIVE Total(_, _)
Total(f, S) ==
    IF S = {} THEN 0
    ELSE LET x == CHOOSE y \in S : TRUE IN f[x] + Total(f, S \ {x})

UpdatesInFlight == Total(updates, UpdateKinds)

\* updateAuthState(session) up to its await, for a session with a user:
\* the pending retry is cleared, user set, the profile fetch started.
UpdateStart(userId, caller) ==
    /\ UpdatesInFlight < MaxUpdates
    /\ backgroundRetryRef' = NoTimer
    /\ user' = userId
    /\ authError' = NULL
    /\ isProfileLoading' = TRUE
    /\ updates' = [updates EXCEPT ![[uid |-> userId, caller |-> caller]] = @ + 1]

\* The fallback timer completes initialization only when the ref says it is
\* not complete.
FallbackForces == ~initCompleteRef

\* The code after `await updateAuthState(...)` in each caller.
AfterUpdate(caller) ==
    CASE caller = "init" ->
           /\ initTask' = "done"
           /\ initCompleteRef' = (IF mountedRef THEN TRUE ELSE initCompleteRef)
           /\ isLoading' = (IF mountedRef THEN FALSE ELSE isLoading)
      [] caller = "initialSession" ->
           /\ initCompleteRef' = TRUE
           /\ isLoading' = (IF mountedRef THEN FALSE ELSE isLoading)
           /\ UNCHANGED initTask
      [] OTHER ->
           /\ isLoading' = (IF mountedRef THEN FALSE ELSE isLoading)
           /\ UNCHANGED <<initTask, initCompleteRef>>

\* The profile fetch of an updateAuthState call settles: a row, null (no
\* row, or an aborted request), the timeout, or another error.  setProfile
\* gets null in the last three cases.
UpdateResolve ==
    \E k \in UpdateKinds, outcome \in {"data", "null", "timeout", "error"} :
      /\ updates[k] > 0
      /\ LET uid == k.uid
             row == fetchProfile(uid)
         IN /\ IF ~mountedRef
               THEN UNCHANGED <<profile, channels, profileSubscriptionRef,
                                backgroundRetryRef, strayRetries, isProfileLoading>>
               ELSE /\ isProfileLoading' = FALSE
                    /\ CASE outcome = "data" ->
                              /\ profile' = row
                              /\ IF row # NoProfile
                                 THEN /\ channels' = Subscribed(channels,
                                                        profileSubscriptionRef, uid)
                                      /\ profileSubscriptionRef' = uid
                                 ELSE UNCHANGED <<channels, profileSubscriptionRef>>
                              /\ UNCHANGED <<backgroundRetryRef, strayRetries>>
                         [] outcome = "timeout" ->
                              /\ RetriesInFlight < MaxRetries
                              /\ profile' = NoProfile
                              /\ backgroundRetryRef' = [uid |-> uid, pending |-> TRUE]
                              /\ strayRetries' =
                                   IF backgroundRetryRef.pending
                                   THEN [strayRetries EXCEPT ![backgroundRetryRef.uid] = @ + 1]
                                   ELSE strayRetries
                              /\ UNCHANGED <<channels, profileSubscriptionRef>>
                         [] OTHER ->
                              /\ profile' = NoProfile
                              /\ UNCHANGED <<channels, profileSubscriptionRef,
                                             backgroundRetryRef, strayRetries>>
            /\ AfterUpdate(k.caller)
      /\ updates' = [updates EXCEPT ![k] = @ - 1]
      /\ UNCHANGED <<user, authError, mountedRef, session, initialEvent, fallbackTimer,
                     retryFetches, soTask>>
      /\ UNCHANGED otherVars

\* A background retry timer (3 s) fires and starts its profile fetch.
RetryFire ==
    \E u \in SessionUsers :
      /\ \/ /\ backgroundRetryRef = [uid |-> u, pending |-> TRUE]
            /\ backgroundRetryRef' = [uid |-> u, pending |-> FALSE]
            /\ UNCHANGED strayRetries
         \/ /\ strayRetries[u] > 0
            /\ strayRetries' = [strayRetries EXCEPT ![u] = @ - 1]
            /\ UNCHANGED backgroundRetryRef
      /\ retryFetches' = IF mountedRef THEN [retryFetches EXCEPT ![u] = @ + 1]
                         ELSE retryFetches
      /\ UNCHANGED <<user, profile, isLoading, isProfileLoading, authError, mountedRef,
                     initCompleteRef, profileSubscriptionRef, session, channels,
                     initTask, initialEvent, fallbackTimer, updates, soTask>>
      /\ UNCHANGED otherVars

\* The profile fetch of a background retry settles.
RetryFetchResolve ==
    \E u \in SessionUsers, ok \in BOOLEAN :
      /\ retryFetches[u] > 0
      /\ retryFetches' = [retryFetches EXCEPT ![u] = @ - 1]
      /\ IF mountedRef /\ ok /\ fetchProfile(u) # NoProfile
         THEN /\ profile' = fetchProfile(u)
              /\ channels' = Subscribed(channels, profileSubscriptionRef, u)
              /\ profileSubscriptionRef' = u
         ELSE UNCHANGED <<profile, channels, profileSubscriptionRef>>
      /\ UNCHANGED <<user, isLoading, isProfileLoading, authError, mountedRef,
                     initCompleteRef, backgroundRetryRef, session, initTask,
                     initialEvent, fallbackTimer, updates, strayRetries, soTask>>
      /\ UNCHANGED otherVars

\* The realtime UPDATE callback of a subscribed profile channel
ProfileRealtimeUpdate ==
    \E u \in SessionUsers :
      /\ channels[u] > 0
      /\ mountedRef
      /\ profile' = fetchProfile(u)
      /\ profile' # profile
      /\ UNCHANGED <<user, isLoading, isProfileLoading, authError, mountedRef,
                     initCompleteRef, backgroundRetryRef, profileSubscriptionRef,
                     session, channels, initTask, initialEvent, fallbackTimer, updates,
                     strayRetries, retryFetches, soTask>>
      /\ UNCHANGED otherVars

\* initializeAuth: supabase.auth.getSession() settles.
InitGetSessionResolve ==
    /\ initTask = "getSession"
    /\ \E outcome \in {"error", "ok"}, isExpiringSoon \in BOOLEAN :
         IF outcome = "error"
         THEN /\ session' = NULL
              /\ initTask' = "done"
              /\ authError' = IF mountedRef THEN "getSession failed" ELSE authError
              /\ isLoading' = (IF mountedRef THEN FALSE ELSE isLoading)
              /\ initCompleteRef' = (IF mountedRef THEN TRUE ELSE initCompleteRef)
              /\ UNCHANGED <<user, isProfileLoading, backgroundRetryRef, updates>>
         ELSE IF session # NULL /\ isExpiringSoon
         THEN /\ initTask' = "refresh"
              /\ UNCHANGED <<session, authError, isLoading, initCompleteRef, user,
                             isProfileLoading, backgroundRetryRef, updates>>
         ELSE IF session # NULL /\ mountedRef
         THEN /\ UpdateStart(session, "init")
              /\ initTask' = "update"
              /\ UNCHANGED <<session, isLoading, initCompleteRef>>
         ELSE /\ initTask' = "done"
              /\ isLoading' = (IF mountedRef THEN FALSE ELSE isLoading)
              /\ initCompleteRef' = (IF mountedRef THEN TRUE ELSE initCompleteRef)
              /\ UNCHANGED <<session, authError, user, isProfileLoading,
                             backgroundRetryRef, updates>>
    /\ UNCHANGED <<profile, mountedRef, profileSubscriptionRef, channels, initialEvent,
                   fallbackTimer, strayRetries, retryFetches, soTask>>
    /\ UNCHANGED otherVars

\* initializeAuth: supabase.auth.refreshSession() settles.
InitRefreshResolve ==
    /\ initTask = "refresh"
    /\ \E ok \in BOOLEAN :
         IF ok /\ session # NULL
         THEN IF mountedRef
              THEN /\ UpdateStart(session, "init")
                   /\ initTask' = "update"
                   /\ UNCHANGED <<session, profile, isLoading, initCompleteRef>>
              ELSE /\ initTask' = "done"
                   /\ UNCHANGED <<session, profile, isLoading, initCompleteRef, user,
                                  authError, isProfileLoading, backgroundRetryRef,
                                  updates>>
         ELSE /\ session' = NULL
              /\ initTask' = "done"
              /\ user' = (IF mountedRef THEN NULL ELSE user)
              /\ profile' = IF mountedRef THEN NoProfile ELSE profile
              /\ authError' = IF mountedRef THEN "refresh failed" ELSE authError
              /\ isLoading' = (IF mountedRef THEN FALSE ELSE isLoading)
              /\ initCompleteRef' = (IF mountedRef THEN TRUE ELSE initCompleteRef)
              /\ UNCHANGED <<isProfileLoading, backgroundRetryRef, updates>>
    /\ UNCHANGED <<mountedRef, profileSubscriptionRef, channels, initialEvent,
                   fallbackTimer, strayRetries, retryFetches, soTask>>
    /\ UNCHANGED otherVars

\* onAuthStateChange callback, event INITIAL_SESSION (emitted once)
OnInitialSession ==
    /\ mountedRef
    /\ initialEvent = "pending"
    /\ initialEvent' = "sent"
    /\ IF ~initCompleteRef /\ session # NULL
       THEN /\ UpdateStart(session, "initialSession")
            /\ UNCHANGED initCompleteRef
       ELSE /\ initCompleteRef' = TRUE
            /\ UNCHANGED <<user, authError, isProfileLoading, backgroundRetryRef,
                           updates>>
    /\ UNCHANGED <<profile, isLoading, mountedRef, profileSubscriptionRef, session,
                   channels, initTask, fallbackTimer, strayRetries, retryFetches,
                   soTask>>
    /\ UNCHANGED otherVars

\* onAuthStateChange callback, events SIGNED_IN, TOKEN_REFRESHED and
\* USER_UPDATED carrying a session
OnSessionEvent ==
    /\ mountedRef
    /\ \E e \in {"SIGNED_IN", "TOKEN_REFRESHED", "USER_UPDATED"}, u \in SessionUsers :
         /\ e # "SIGNED_IN" => session = u
         /\ session' = u
         /\ UpdateStart(u, "event")
    /\ UNCHANGED <<profile, isLoading, mountedRef, initCompleteRef,
                   profileSubscriptionRef, channels, initTask, initialEvent,
                   fallbackTimer, strayRetries, retryFetches, soTask>>
    /\ UNCHANGED otherVars

\* onAuthStateChange callback, event TOKEN_REFRESHED without a session
OnTokenRefreshFailed ==
    /\ mountedRef
    /\ session # NULL
    /\ session' = NULL
    /\ user' = NULL
    /\ profile' = NoProfile
    /\ isLoading' = FALSE
    /\ UNCHANGED <<isProfileLoading, authError, mountedRef, initCompleteRef,
                   backgroundRetryRef, profileSubscriptionRef, channels, initTask,
                   initialEvent, fallbackTimer, updates, strayRetries, retryFetches,
                   soTask>>
    /\ UNCHANGED otherVars

\* onAuthStateChange callback, events SIGNED_OUT and USER_DELETED
OnSignedOut ==
    /\ mountedRef
    /\ session' = NULL
    /\ channels' = Removed(channels, profileSubscriptionRef)
    /\ profileSubscriptionRef' = NULL
    /\ user' = NULL
    /\ profile' = NoProfile
    /\ isLoading' = FALSE
    /\ UNCHANGED <<isProfileLoading, authError, mountedRef, initCompleteRef,
                   backgroundRetryRef, initTask, initialEvent, fallbackTimer, updates,
                   strayRetries, retryFetches, soTask>>
    /\ UNCHANGED otherVars

\* The 12 s fallback timer fires.
FallbackFire ==
    /\ fallbackTimer = "pending"
    /\ fallbackTimer' = "fired"
    /\ IF mountedRef /\ FallbackForces
       THEN /\ isLoading' = FALSE
            /\ initCompleteRef' = TRUE
       ELSE UNCHANGED <<isLoading, initCompleteRef>>
    /\ UNCHANGED <<user, profile, isProfileLoading, authError, mountedRef,
                   backgroundRetryRef, profileSubscriptionRef, session, channels,
                   initTask, initialEvent, updates, strayRetries, retryFetches, soTask>>
    /\ UNCHANGED otherVars

\* signOut up to `await supabase.auth.signOut()`
signOut ==
    /\ mountedRef
    /\ soTask # "awaiting"
    /\ channels' = Removed(channels, profileSubscriptionRef)
    /\ profileSubscriptionRef' = NULL
    /\ backgroundRetryRef' = NoTimer
    /\ soTask' = "awaiting"
    /\ UNCHANGED <<user, profile, isLoading, isProfileLoading, authError, mountedRef,
                   initCompleteRef, session, initTask, initialEvent, fallbackTimer,
                   updates, strayRetries, retryFetches>>
    /\ UNCHANGED otherVars

\* supabase.auth.signOut() settles and signOut returns.
SignOutResolve ==
    /\ soTask = "awaiting"
    /\ \E ok \in BOOLEAN :
         IF ok
         THEN /\ session' = NULL
              /\ user' = (IF mountedRef THEN NULL ELSE user)
              /\ profile' = IF mountedRef THEN NoProfile ELSE profile
              /\ authError' = IF mountedRef THEN NULL ELSE authError
              /\ soTask' = "ok"
         ELSE /\ soTask' = "error"
              /\ UNCHANGED <<session, user, profile, authError>>
    /\ UNCHANGED <<isLoading, isProfileLoading, mountedRef, initCompleteRef,
                   backgroundRetryRef, profileSubscriptionRef, channels, initTask,
                   initialEvent, fallbackTimer, updates, strayRetries, retryFetches>>
    /\ UNCHANGED otherVars

\* Cleanup of the initialization effect
Unmount ==
    /\ mountedRef
    /\ mountedRef' = FALSE
    /\ fallbackTimer' = IF fallbackTimer = "pending" THEN "cleared" ELSE fallbackTimer
    /\ backgroundRetryRef' = [backgroundRetryRef EXCEPT !.pending = FALSE]
    /\ channels' = Removed(channels, profileSubscriptionRef)
    /\ UNCHANGED <<user, profile, isLoading, isProfileLoading, authError,
                   initCompleteRef, profileSubscriptionRef, session, initTask,
                   initialEvent, updates, strayRetries, retryFetches, soTask>>
    /\ UNCHANGED otherVars

Init ==
    /\ session \in {NULL, "u1"}
    /\ profiles = {Row("u1", WalletA1, "freelancer", 10000),
                   Row("u2", NoWallet, "client", 0)}
    /\ user = NULL
    /\ profile = NoProfile
    /\ isLoading = TRUE
    /\ isProfileLoading = FALSE
    /\ authError = NULL
    /\ localWalletAddress = NoWallet
    /\ isWalletConnecting = FALSE
    /\ liveTokenBalance = 0
    /\ liveFor = NoWallet
    /\ phantom = TRUE
    /\ mountedRef = TRUE
    /\ initCompleteRef = FALSE
    /\ backgroundRetryRef = NoTimer
    /\ profileSubscriptionRef = NULL
    /\ channels = NoChannels
    /\ authUsers = {}
    /\ wtask = IdleWallet
    /\ rtask = IdleRegister
    /\ initTask = "getSession"
    /\ initialEvent = "pending"
    /\ fallbackTimer = "pending"
    /\ updates = NoUpdates
    /\ strayRetries = NoRetries
    /\ retryFetches = NoRetries
    /\ soTask = "idle"
    /\ location = "/messages"
    /\ screen = Spinner
    /\ IdlePages
    /\ sitask = [pc |-> "idle", uid |-> NULL]
    /\ ftask = "idle"

Next ==
    \/ InitGetSessionResolve
    \/ InitRefreshResolve
    \/ OnInitialSession
    \/ OnSessionEvent
    \/ OnTokenRefreshFailed
    \/ OnSignedOut
    \/ UpdateResolve
    \/ RetryFire
    \/ RetryFetchResolve
    \/ ProfileRealtimeUpdate
    \/ FallbackFire
    \/ signOut
    \/ SignOutResolve
    \/ Unmount

Spec == Init /\ [][Next]_vars

\* Timers fire and a profile fetch settles (it races a timeout); getSession,
\* refreshSession and the backend sign-out have no timeout, and auth events
\* are the backend's to send.
FairSpec ==
    /\ Spec
    /\ WF_vars(FallbackFire)
    /\ WF_vars(UpdateResolve)
    /\ WF_vars(RetryFire)
    /\ WF_vars(RetryFetchResolve)

\* ------------------------------------------------------------------------
\* ProtectedRoute under every auth state and protected location
\* ------------------------------------------------------------------------
routeFrame == <<authError, localWalletAddress, isWalletConnecting, liveTokenBalance,
                isProfileLoading, mountedRef, initCompleteRef, backgroundRetryRef,
                profileSubscriptionRef, session, channels, initTask, initialEvent,
                fallbackTimer, updates, strayRetries, retryFetches, soTask, phantom,
                liveFor, wtask, authUsers, rtask, profiles, pageVars, sitask, ftask>>

\* The auth context changes and the route re-renders.
AuthContextChange ==
    /\ \E l \in BOOLEAN, u \in SessionUsers \cup {NULL}, p \in profiles \cup {NoProfile} :
         /\ isLoading' = l
         /\ user' = u
         /\ profile' = p
         /\ screen' = ProtectedRoute(l, IsAuthenticatedOf(u, p), location)
    /\ UNCHANGED location
    /\ UNCHANGED routeFrame

\* The user opens another protected route.
Navigate ==
    /\ \E loc \in ProtectedPaths :
         /\ location' = loc
         /\ screen' = ProtectedRoute(isLoading, isAuthenticated, loc)
    /\ UNCHANGED <<user, profile, isLoading>>
    /\ UNCHANGED routeFrame

RouteInit ==
    /\ profiles = {Row("u1", WalletA1, "freelancer", 10000),
                   Row("u2", NoWallet, "client", 0)}
    /\ user = NULL
    /\ session = NULL
    /\ profile = NoProfile
    /\ phantom = TRUE
    /\ authError = NULL
    /\ localWalletAddress = NoWallet
    /\ isWalletConnecting = FALSE
    /\ liveTokenBalance = 0
    /\ liveFor = NoWallet
    /\ authUsers = {}
    /\ wtask = IdleWallet
    /\ rtask = IdleRegister
    /\ isLoading = TRUE
    /\ isProfileLoading = FALSE
    /\ mountedRef = TRUE
    /\ initCompleteRef = FALSE
    /\ backgroundRetryRef = NoTimer
    /\ profileSubscriptionRef = NULL
    /\ channels = NoChannels
    /\ initTask = "getSession"
    /\ initialEvent = "pending"
    /\ fallbackTimer = "pending"
    /\ updates = NoUpdates
    /\ strayRetries = NoRetries
    /\ retryFetches = NoRetries
    /\ soTask = "idle"
    /\ location \in ProtectedPaths
    /\ screen = Spinner
    /\ IdlePages
    /\ sitask = [pc |-> "idle", uid |-> NULL]
    /\ ftask = "idle"

RouteNext ==
    \/ AuthContextChange
    \/ Navigate

RouteSpec == RouteInit /\ [][RouteNext]_vars

\* C6: ProtectedRoute shows its children only when isLoading is false and
\* isAuthenticated is true; while isLoading is true it shows the spinner and
\* never redirects; with isLoading false and isAuthenticated false it
\* redirects to /login with the attempted location in state.from.
C6_ProtectedRoute ==
    /\ (screen.view = "children" => ~isLoading /\ isAuthenticated)
    /\ (isLoading => screen.view = "spinner")
    /\ (~isLoading /\ ~isAuthenticated
          => screen = [view |-> "navigate", to |-> "/login", from |-> location])

C6_Witness ==
    /\ screen.view = "children"
    /\ ~isLoading
    /\ user = NULL
    /\ profile # NoProfile
    /\ location = "/dashboard/admin"

\* C7 as claimed: once mounted (and until unmounted), isLoading eventually
\* becomes false, whatever getSession and the auth events do.
C7_Original == <>(~isLoading \/ ~mountedRef)

\* C8 as claimed: when the backend sign-out succeeds, on return user, profile
\* and authError are null, no profile channel is subscribed and no background
\* retry is pending; when it fails, user and profile are as before.
C8_Original ==
    [][(mountedRef /\ soTask = "awaiting") =>
         /\ (soTask' = "ok"
               => /\ user' = NULL
                  /\ profile' = NoProfile
                  /\ authError' = NULL
                  /\ profileSubscriptionRef' = NULL
                  /\ channels' = NoChannels
                  /\ PendingRetries' = 0)
         /\ (soTask' = "error" => user' = user /\ profile' = profile)]_vars

\* ------------------------------------------------------------------------
\* Messages page (pages/Messages.jsx) and useChat.subscribeToMessages
\* ------------------------------------------------------------------------
\* What the pages and data hooks below leave alone
hooksFrame == <<user, authError, profiles, authUsers, rtask, reconcilerVars,
                walletVars, routeVars, step>>

\* The subscription effect works on a record st of subscriptionRef.current
\* (ref), the backend's channels (ch), and whether the last run returned a
\* cleanup.

UnsubscribedKeepRef(st) == [st EXCEPT !.ref = NULL]

\* subscriptionRef.current(): the unsubscribe returned by subscribeToMessages
\* removes the channel it subscribed.
Unsubscribed(st) ==
    IF st.ref = NULL THEN st
    ELSE [st EXCEPT !.ref = NULL, !.ch = [st.ch EXCEPT ![st.ref] = @ - 1]]


\* The cleanup of the previous run of the effect, when it returned one
EffectCleanup(st) ==
    IF st.cleanup THEN [Unsubscribed(st) EXCEPT !.cleanup = FALSE] ELSE st

\* The body of the effect for the selected conversation and profile id
EffectBody(st, sel, pid) ==
    IF sel = NULL \/ pid = NULL THEN st
    ELSE LET clean == Unsubscribed(st)
         IN [ref |-> sel, ch |-> [clean.ch EXCEPT ![sel] = @ + 1], cleanup |-> TRUE]

\* React re-runs the effect when selectedConversation?.id or profile?.id
\* changed: cleanup first, then the body.
SubscriptionEffect(st, oldSel, oldPid, sel, pid) ==
    IF <<oldSel, oldPid>> = <<sel, pid>> THEN st
    ELSE EffectBody(EffectCleanup(st), sel, pid)

\* The effect on [conversationId, conversations]: selection from the URL
UrlSelection(sel, cid, convs) ==
    IF cid = NULL THEN NULL
    ELSE IF convs = {} THEN sel
    ELSE IF cid \in convs THEN cid
    ELSE sel

\* A render of the mounted page after a handler set selectedConversation to
\* sel, the URL parameter to cid, the list to convs and the profile to prof:
\* the effects of that commit run, the URL effect may select again, and the
\* subscription effect follows the selection.
Rendered(sel, cid, convs, prof) ==
    LET st0 == [ref |-> subscriptionRef, ch |-> msgChannels, cleanup |-> effectCleanup]
        st1 == SubscriptionEffect(st0, selectedConversation, profile.id, sel, prof.id)
        sel2 == IF <<cid, convs>> # <<conversationId, conversations>>
                THEN UrlSelection(sel, cid, convs) ELSE sel
        st2 == SubscriptionEffect(st1, sel, prof.id, sel2, prof.id)
    IN /\ selectedConversation' = sel2
       /\ conversationId' = cid
       /\ conversations' = convs
       /\ profile' = prof
       /\ subscriptionRef' = st2.ref
       /\ msgChannels' = st2.ch
       /\ effectCleanup' = st2.cleanup
       /\ UNCHANGED messagesMounted

\* The page mounts at /messages or /messages/:conversationId: every effect
\* runs once with the initial state.
MessagesMount ==
    /\ ~messagesMounted
    /\ messagesMounted' = TRUE
    /\ \E cid \in ConvIds \cup {NULL} :
         LET sel == UrlSelection(NULL, cid, {})
             st == EffectBody([ref |-> NULL, ch |-> msgChannels, cleanup |-> FALSE], sel, profile.id)
         IN /\ conversationId' = cid
            /\ selectedConversation' = sel
            /\ subscriptionRef' = st.ref
            /\ msgChannels' = st.ch
            /\ effectCleanup' = st.cleanup
    /\ conversations' = {}
    /\ UNCHANGED profile
    /\ UNCHANGED <<hooksFrame, chatVars, submitVars>>

\* The page unmounts: the cleanup of the effect runs and the state is gone.
MessagesUnmount ==
    /\ messagesMounted
    /\ messagesMounted' = FALSE
    /\ LET st == EffectCleanup([ref |-> subscriptionRef, ch |-> msgChannels, cleanup |-> effectCleanup])
       IN /\ msgChannels' = st.ch
          /\ effectCleanup' = st.cleanup
    /\ subscriptionRef' = NULL
    /\ selectedConversation' = NULL
    /\ conversationId' = NULL
    /\ conversations' = {}
    /\ UNCHANGED profile
    /\ UNCHANGED <<hooksFrame, chatVars, submitVars>>

\* fetchConversations resolves and setConversations stores the list.
ConversationsLoaded ==
    /\ messagesMounted
    /\ profile # NoProfile
    /\ \E convs \in SUBSET ConvIds :
         /\ convs # conversations
         /\ Rendered(selectedConversation, conversationId, convs, profile)
    /\ UNCHANGED <<hooksFrame, chatVars, submitVars>>

handleSelectConversation ==
    /\ messagesMounted
    /\ \E conv \in conversations :
         /\ selectedConversation # conv
         /\ Rendered(conv, conv, conversations, profile)
    /\ UNCHANGED <<hooksFrame, chatVars, submitVars>>

handleBack ==
    /\ messagesMounted
    /\ <<selectedConversation, conversationId>> # <<NULL, NULL>>
    /\ Rendered(NULL, NULL, conversations, profile)
    /\ UNCHANGED <<hooksFrame, chatVars, submitVars>>

\* The URL changes under the page (history navigation, a link)
UrlChange ==
    /\ messagesMounted
    /\ \E cid \in ConvIds \cup {NULL} :
         /\ cid # conversationId
         /\ Rendered(selectedConversation, cid, conversations, profile)
    /\ UNCHANGED <<hooksFrame, chatVars, submitVars>>

\* AuthProvider sets another profile (sign-in, sign-out, realtime update).
AuthProfileChange ==
    /\ messagesMounted
    /\ \E prof \in profiles \cup {NoProfile} :
         /\ prof # profile
         /\ Rendered(selectedConversation, conversationId, conversations, prof)
    /\ UNCHANGED <<hooksFrame, chatVars, submitVars>>

MessagesInit ==
    /\ profiles = {Row("u1", WalletA1, "freelancer", 10000),
                   Row("u2", NoWallet, "client", 0)}
    /\ user = NULL
    /\ session = NULL
    /\ profile \in profiles
    /\ phantom = TRUE
    /\ authError = NULL
    /\ localWalletAddress = NoWallet
    /\ isWalletConnecting = FALSE
    /\ liveTokenBalance = 0
    /\ liveFor = NoWallet
    /\ authUsers = {}
    /\ wtask = IdleWallet
    /\ rtask = IdleRegister
    /\ ReconcilerSettled
    /\ location = "/messages"
    /\ screen = Children
    /\ step = "connect"
    /\ IdleHooks

MessagesNext ==
    \/ MessagesMount
    \/ MessagesUnmount
    \/ ConversationsLoaded
    \/ handleSelectConversation
    \/ handleBack
    \/ UrlChange
    \/ AuthProfileChange

MessagesSpec == MessagesInit /\ [][MessagesNext]_vars

\* C12: in every state of the Messages page at most one messages channel is
\* subscribed, it is for the currently selected conversation, and none is
\* left when no conversation is selected or the page is unmounted; a change
\* of the selected conversation removes the channel of the previous one.
C12_MessagesChannel ==
    /\ Total(msgChannels, ConvIds) <= 1
    /\ \A c \in ConvIds : msgChannels[c] > 0 => messagesMounted /\ selectedConversation = c
    /\ (selectedConversation = NULL \/ ~messagesMounted) => msgChannels = [c \in ConvIds |-> 0]

C12_Witness ==
    /\ messagesMounted
    /\ selectedConversation = "c2"
    /\ conversationId = "c3"
    /\ msgChannels["c2"] = 1
    /\ msgChannels["c1"] = 0

\* ------------------------------------------------------------------------
\* The session reconciler after initialization, with the operations the
\* application calls: signIn and forceRefreshAuth
\* ------------------------------------------------------------------------

\* signIn up to `await supabase.auth.signInWithPassword(...)`
signIn ==
    /\ sitask.pc = "idle"
    /\ sitask' = [pc |-> "password", uid |-> NULL]
    /\ authError' = NULL
    /\ UNCHANGED <<user, profile, isLoading, isProfileLoading, mountedRef,
                   profileSubscriptionRef, session, channels, updates, soTask,
                   ftask, profiles, walletVars, registerVars, routeVars, pageVars, initCompleteRef, initTask, initialEvent, fallbackTimer, backgroundRetryRef, strayRetries, retryFetches>>

\* signInWithPassword settles: an error, or the session of a user
SignInPasswordResolve ==
    /\ sitask.pc = "password"
    /\ \E u \in SessionUsers \cup {NULL} :
         IF u = NULL
         THEN /\ authError' = "Invalid login credentials"
              /\ sitask' = [pc |-> "idle", uid |-> NULL]
              /\ UNCHANGED session
         ELSE /\ session' = u
              /\ sitask' = [pc |-> "fetch", uid |-> u]
              /\ UNCHANGED authError
    /\ UNCHANGED <<user, profile, isLoading, isProfileLoading, mountedRef,
                   profileSubscriptionRef, channels, updates, soTask,
                   ftask, profiles, walletVars, registerVars, routeVars, pageVars, initCompleteRef, initTask, initialEvent, fallbackTimer, backgroundRetryRef, strayRetries, retryFetches>>

\* The profile fetch of signIn settles; a failure is only logged.
SignInFetchResolve ==
    /\ sitask.pc = "fetch"
    /\ \E outcome \in {"data", "null", "error"} :
         LET row == IF outcome = "data" THEN fetchProfile(sitask.uid) ELSE NoProfile
         IN /\ profile' = IF outcome = "error" THEN profile ELSE row
            /\ IF row # NoProfile
               THEN /\ channels' = Subscribed(channels, profileSubscriptionRef, sitask.uid)
                    /\ profileSubscriptionRef' = sitask.uid
               ELSE UNCHANGED <<channels, profileSubscriptionRef>>
    /\ sitask' = [pc |-> "idle", uid |-> NULL]
    /\ UNCHANGED <<user, isLoading, isProfileLoading, authError, mountedRef, session,
                   updates, soTask, ftask, profiles, walletVars, registerVars, routeVars, pageVars,
                   initCompleteRef, initTask, initialEvent, fallbackTimer, backgroundRetryRef, strayRetries, retryFetches>>

\* forceRefreshAuth up to `await supabase.auth.getSession()`
forceRefreshAuth ==
    /\ ftask = "idle"
    /\ ftask' = "getSession"
    /\ isLoading' = TRUE
    /\ authError' = NULL
    /\ UNCHANGED <<user, profile, isProfileLoading, mountedRef,
                   profileSubscriptionRef, session, channels, updates, soTask,
                   sitask, profiles, walletVars, registerVars, routeVars, pageVars, initCompleteRef, initTask, initialEvent, fallbackTimer, backgroundRetryRef, strayRetries, retryFetches>>

\* The failure paths of forceRefreshAuth: the backend sign-out (its error is
\* dropped), then user and profile are cleared.
ForceFail(e) ==
    /\ \E signedOut \in BOOLEAN : session' = IF signedOut THEN NULL ELSE session
    /\ user' = NULL
    /\ profile' = NoProfile
    /\ authError' = e
    /\ isLoading' = FALSE
    /\ ftask' = "idle"

ForceGetSessionResolve ==
    /\ ftask = "getSession"
    /\ \E ok \in BOOLEAN :
         IF ~ok THEN ForceFail("getSession failed")
         ELSE IF session # NULL
         THEN /\ ftask' = "refresh"
              /\ UNCHANGED <<user, profile, authError, isLoading, session>>
         ELSE /\ user' = NULL
              /\ profile' = NoProfile
              /\ isLoading' = FALSE
              /\ ftask' = "idle"
              /\ UNCHANGED <<authError, session>>
    /\ UNCHANGED <<isProfileLoading, mountedRef, profileSubscriptionRef, channels,
                   updates, soTask, sitask, profiles, walletVars, registerVars, routeVars, pageVars,
                   initCompleteRef, initTask, initialEvent, fallbackTimer, backgroundRetryRef, strayRetries, retryFetches>>

\* refreshSession settles: updateAuthState(refreshData.session) starts, or
\* the failure path runs.
ForceRefreshResolve ==
    /\ ftask = "refresh"
    /\ \E ok \in BOOLEAN :
         IF ok /\ session # NULL
         THEN /\ UpdateStart(session, "force")
              /\ ftask' = "idle"
              /\ UNCHANGED <<profile, isLoading, session>>
         ELSE /\ ForceFail("refresh failed")
              /\ UNCHANGED <<isProfileLoading, backgroundRetryRef, updates>>
    /\ UNCHANGED <<mountedRef, profileSubscriptionRef, channels, soTask, sitask, profiles, walletVars, registerVars, routeVars, pageVars, initCompleteRef, initTask, initialEvent, fallbackTimer, strayRetries,
                   retryFetches>>

\* Initialization has completed: signed out, or signed in as u1 with the
\* profile loaded and its channel subscribed.
SessionInit ==
    /\ profiles = {Row("u1", WalletA1, "freelancer", 10000),
                   Row("u2", NoWallet, "client", 0)}
    /\ \E s \in {NULL, "u1"} :
         /\ session = s
         /\ user = s
         /\ profile = IF s = NULL THEN NoProfile ELSE fetchProfile(s)
         /\ profileSubscriptionRef = s
         /\ channels = IF s = NULL THEN NoChannels ELSE [NoChannels EXCEPT ![s] = 1]
    /\ isLoading = FALSE
    /\ isProfileLoading = FALSE
    /\ authError = NULL
    /\ localWalletAddress = NoWallet
    /\ isWalletConnecting = FALSE
    /\ liveTokenBalance = 0
    /\ liveFor = NoWallet
    /\ phantom = TRUE
    /\ mountedRef = TRUE
    /\ initCompleteRef = TRUE
    /\ backgroundRetryRef = NoTimer
    /\ authUsers = {}
    /\ wtask = IdleWallet
    /\ rtask = IdleRegister
    /\ initTask = "done"
    /\ initialEvent = "sent"
    /\ fallbackTimer = "fired"
    /\ updates = NoUpdates
    /\ strayRetries = NoRetries
    /\ retryFetches = NoRetries
    /\ soTask = "idle"
    /\ sitask = [pc |-> "idle", uid |-> NULL]
    /\ ftask = "idle"
    /\ location = "/messages"
    /\ screen = Children
    /\ IdlePages

SessionNext ==
    \/ OnSessionEvent
    \/ OnTokenRefreshFailed
    \/ OnSignedOut
    \/ UpdateResolve
    \/ RetryFire
    \/ RetryFetchResolve
    \/ ProfileRealtimeUpdate
    \/ signOut
    \/ SignOutResolve
    \/ Unmount
    \/ signIn
    \/ SignInPasswordResolve
    \/ SignInFetchResolve

SessionSpec == SessionInit /\ [][SessionNext]_vars

\* forceRefreshAuth among the auth events, the profile fetches and retries
RefreshNext ==
    \/ forceRefreshAuth
    \/ ForceGetSessionResolve
    \/ ForceRefreshResolve
    \/ OnTokenRefreshFailed
    \/ OnSessionEvent
    \/ OnSignedOut
    \/ UpdateResolve
    \/ RetryFire
    \/ RetryFetchResolve
    \/ ProfileRealtimeUpdate

RefreshSpec == SessionInit /\ [][RefreshNext]_vars

\* C13: at most one profile realtime channel is subscribed at any time, and
\* it is the one registered in profileSubscriptionRef, whatever sequence of
\* sign-in, token-refresh, user-update and sign-out events and calls occurs.
C13_OneProfileChannel ==
    /\ Total(channels, SessionUsers) <= 1
    /\ \A u \in SessionUsers : channels[u] > 0 => profileSubscriptionRef = u

C13_Witness ==
    /\ channels["u2"] = 1
    /\ channels["u1"] = 0
    /\ profileSubscriptionRef = "u2"
    /\ sitask.pc = "fetch"
    /\ UpdatesInFlight > 0
    /\ RetriesInFlight > 0

\* C14 as claimed: in every reachable state a subscribed profile channel
\* filters on the id of the current, non-null user; so whenever user is
\* cleared no profile channel remains subscribed.
C14_Original ==
    /\ \A u \in SessionUsers : channels[u] > 0 => user = u
    /\ (user = NULL => channels = NoChannels)

UpdateCalled == UpdatesInFlight' > UpdatesInFlight
SignOutCalled == soTask # "awaiting" /\ soTask' = "awaiting"
Unmounted == mountedRef /\ ~mountedRef'

\* C17 as claimed: at most one background profile retry is pending at any
\* time; a retry is scheduled only by an updateAuthState call whose profile
\* fetch failed; and every updateAuthState call, signOut and unmount leaves
\* no retry pending.
C17_Original ==
    [][/\ PendingRetries' <= 1
       /\ (PendingRetries' > PendingRetries
             => UpdatesInFlight' < UpdatesInFlight /\ profile' = NoProfile)
       /\ (UpdateCalled \/ SignOutCalled \/ Unmounted => PendingRetries' = 0)]_vars

\* C18 as claimed: in every reachable state in which user and profile are
\* both non-null, profile.id equals user.id.
C18_Original ==
    (user # NULL /\ profile # NoProfile) => profile.id = user

\* ------------------------------------------------------------------------
\* useChat.getOrCreateConversation
\* ------------------------------------------------------------------------
ParticipantsAsGiven(userId1, userId2) == <<userId1, userId2>>

\* userId1 < userId2 ? [userId1, userId2] : [userId2, userId1]
Participants(userId1, userId2) ==
    IF IdRank[userId1] < IdRank[userId2] THEN <<userId1, userId2>>
    ELSE <<userId2, userId1>>

Matching(rows, pair) ==
    {r \in rows : r.participant_1_id = pair[1] /\ r.participant_2_id = pair[2]}

\* getOrCreateConversation(userId1, userId2) up to its first await: a
\* conversation of the pair in this instance's cache is returned at once.
getOrCreateConversation ==
    \E h \in ChatHooks, a \in ChatUsers, b \in ChatUsers :
      /\ a # b
      /\ gtask[h].pc \in {"idle", "returned"}
      /\ LET cached == Matching(conversationsCache[h], Participants(a, b))
         IN gtask' = [gtask EXCEPT ![h] =
                IF cached # {}
                THEN [pc |-> "returned", a |-> a, b |-> b,
                      result |-> (CHOOSE r \in cached : TRUE).id]
                ELSE [pc |-> "lookup", a |-> a, b |-> b, result |-> NULL]]
      /\ UNCHANGED <<conversationRows, conversationsCache>>
      /\ UNCHANGED <<hooksFrame, profile, messagesVars, submitVars>>

\* The select ... maybeSingle() settles: an error (also when several rows
\* match), the existing row, or no row and the insert is sent.
ConversationLookupResolve ==
    \E h \in ChatHooks, ok \in BOOLEAN :
      /\ gtask[h].pc = "lookup"
      /\ LET existing == Matching(conversationRows, Participants(gtask[h].a, gtask[h].b))
         IN IF ~ok \/ Cardinality(existing) > 1
            THEN /\ gtask' = [gtask EXCEPT ![h].pc = "returned", ![h].result = "error"]
                 /\ UNCHANGED conversationsCache
            ELSE IF existing # {}
            THEN /\ gtask' = [gtask EXCEPT ![h].pc = "returned",
                                           ![h].result = (CHOOSE r \in existing : TRUE).id]
                 /\ conversationsCache' =
                      [conversationsCache EXCEPT ![h] = @ \cup existing]
            ELSE /\ gtask' = [gtask EXCEPT ![h].pc = "insert"]
                 /\ UNCHANGED conversationsCache
      /\ UNCHANGED conversationRows
      /\ UNCHANGED <<hooksFrame, profile, messagesVars, submitVars>>

\* The insert settles: it fails, also on the table's unique constraint on
\* (participant_1_id, participant_2_id), or the new row, under an id no row
\* has yet, is cached and returned.
ConversationInsertResolve ==
    \E h \in ChatHooks, ok \in BOOLEAN :
      /\ gtask[h].pc = "insert"
      /\ LET pair == Participants(gtask[h].a, gtask[h].b)
             newConv == [id |-> CHOOSE id \in ConvIds :
                                  \A r \in conversationRows : r.id # id,
                         participant_1_id |-> pair[1],
                         participant_2_id |-> pair[2]]
         IN IF ~ok \/ Matching(conversationRows, pair) # {}
            THEN /\ gtask' = [gtask EXCEPT ![h].pc = "returned", ![h].result = "error"]
                 /\ UNCHANGED <<conversationRows, conversationsCache>>
            ELSE /\ conversationRows' = conversationRows \cup {newConv}
                 /\ conversationsCache' =
                      [conversationsCache EXCEPT ![h] = @ \cup {newConv}]
                 /\ gtask' = [gtask EXCEPT ![h].pc = "returned", ![h].result = newConv.id]
      /\ UNCHANGED <<hooksFrame, profile, messagesVars, submitVars>>

\* fetchConversations(userId) resolves and fills the instance's cache.
ConversationsFetched ==
    \E h \in ChatHooks, u \in ChatUsers :
      LET convs == {r \in conversationRows :
                      r.participant_1_id = u \/ r.participant_2_id = u}
      IN /\ convs \ conversationsCache[h] # {}
         /\ conversationsCache' = [conversationsCache EXCEPT ![h] = @ \cup convs]
         /\ UNCHANGED <<conversationRows, gtask>>
         /\ UNCHANGED <<hooksFrame, profile, messagesVars, submitVars>>

\* A signed-in freelancer on a page that holds the data hooks, before any
\* of their calls.
HooksInit ==
    /\ profiles = {Row("u1", WalletA1, "freelancer", 10000),
                   Row("u2", NoWallet, "client", 0)}
    /\ user = NULL
    /\ session = NULL
    /\ profile = Row("u1", WalletA1, "freelancer", 10000)
    /\ phantom = TRUE
    /\ authError = NULL
    /\ localWalletAddress = NoWallet
    /\ isWalletConnecting = FALSE
    /\ liveTokenBalance = 0
    /\ liveFor = NoWallet
    /\ authUsers = {}
    /\ wtask = IdleWallet
    /\ rtask = IdleRegister
    /\ ReconcilerSettled
    /\ location = "/messages"
    /\ screen = Children
    /\ IdlePages

ChatNext ==
    \/ getOrCreateConversation
    \/ ConversationLookupResolve
    \/ ConversationInsertResolve
    \/ ConversationsFetched

ChatSpec == HooksInit /\ [][ChatNext]_vars

SamePair(r, a, b) == {r.participant_1_id, r.participant_2_id} = {a, b}

\* C15: every conversation row is stored with participant_1_id <
\* participant_2_id, no two rows are for the same pair of users whatever the
\* order of the arguments in the calls, and every call that returns data
\* returns the one row of its pair, so (a, b) and (b, a) resolve to the same
\* conversation.
C15_OneConversation ==
    /\ \A r \in conversationRows : IdRank[r.participant_1_id] < IdRank[r.participant_2_id]
    /\ \A r1, r2 \in conversationRows :
         SamePair(r1, r2.participant_1_id, r2.participant_2_id) => r1 = r2
    /\ \A h \in ChatHooks :
         (gtask[h].pc = "returned" /\ gtask[h].result # "error")
           => \E r \in conversationRows :
                r.id = gtask[h].result /\ SamePair(r, gtask[h].a, gtask[h].b)

C15_Witness ==
    /\ gtask["h1"].pc = "returned" /\ gtask["h1"].a = "u2" /\ gtask["h1"].b = "u1"
    /\ gtask["h2"].pc = "returned" /\ gtask["h2"].a = "u1" /\ gtask["h2"].b = "u2"
    /\ gtask["h1"].result = gtask["h2"].result
    /\ gtask["h1"].result \in ConvIds
    /\ Cardinality(conversationRows) = 2

\* ------------------------------------------------------------------------
\* createApplication, createReview, createServiceRequest
\* ------------------------------------------------------------------------
AlreadyMessage(h) ==
    IF h = "createApplication" THEN "You have already applied to this job"
    ELSE IF h = "createReview" THEN "You have already reviewed this contract"
    ELSE "You have already sent a request for this service"

\* Handler h up to its existence query.
SubmitCall(h) ==
    \E key \in SubmitKeys :
      /\ stask[h].pc \in {"idle", "returned"}
      /\ stask' = [stask EXCEPT ![h] = [pc |-> "check", key |-> key, result |-> NULL]]
      /\ UNCHANGED submissions
      /\ UNCHANGED <<hooksFrame, profile, messagesVars, chatVars>>

\* The existence query select('id').eq(..).eq(..).single() settles. Only its
\* data is read, its error is dropped: data is the row when the request
\* succeeds and exactly one row matches, null otherwise.
SubmitCheckResolve(h) ==
    \E ok \in BOOLEAN :
      /\ stask[h].pc = "check"
      /\ IF ok /\ submissions[h][stask[h].key] = 1
         THEN stask' = [stask EXCEPT ![h].pc = "returned", ![h].result = AlreadyMessage(h)]
         ELSE stask' = [stask EXCEPT ![h].pc = "insert"]
      /\ UNCHANGED submissions
      /\ UNCHANGED <<hooksFrame, profile, messagesVars, chatVars>>

\* The insert settles.
SubmitInsertResolve(h) ==
    \E ok \in BOOLEAN :
      /\ stask[h].pc = "insert"
      /\ IF ok
         THEN /\ submissions[h][stask[h].key] < MaxRows
              /\ submissions' = [submissions EXCEPT ![h][stask[h].key] = @ + 1]
              /\ stask' = [stask EXCEPT ![h].pc = "returned", ![h].result = "data"]
         ELSE /\ stask' = [stask EXCEPT ![h].pc = "returned", ![h].result = "createError"]
              /\ UNCHANGED submissions
      /\ UNCHANGED <<hooksFrame, profile, messagesVars, chatVars>>

SubmitNext ==
    \/ \E h \in SubmitHandlers : SubmitCall(h)
    \/ \E h \in SubmitHandlers : SubmitCheckResolve(h)
    \/ \E h \in SubmitHandlers : SubmitInsertResolve(h)

SubmitSpec == HooksInit /\ [][SubmitNext]_vars

\* C16: when the existence query of a submission settles and a row for the
\* call's key is already stored, the call returns the table's 'You have
\* already ...' error and sends no insert; and no key ever has more than one
\* row.
C16_Original ==
    [][/\ \A t \in SubmitHandlers :
            (stask[t].pc = "check" /\ stask'[t].pc # "check"
               /\ submissions[t][stask[t].key] > 0)
              => /\ stask'[t].pc = "returned"
                 /\ stask'[t].result = AlreadyMessage(t)
       /\ \A t \in SubmitHandlers, k \in SubmitKeys : submissions'[t][k] <= 1]_vars

====
